---- MODULE Spec2Model ----
(***************************************************************************)
(* Model of the Vanity mirroring engine (src/src/vanity/mod.rs): the sync  *)
(* pipeline that mirrors the commits of the configured read-repos into the *)
(* configured this-repo as empty commits tagged with a marker line.        *)
(*                                                                         *)
(* Text is modelled as it is in the program: a string is a sequence of     *)
(* characters, a commit message is one string with "\n" between its lines, *)
(* an object id is a number that to_string renders as 40 lowercase         *)
(* hexadecimal digits.                                                     *)
(***************************************************************************)
EXTENDS Integers, Sequences, FiniteSets, TLC

\* ------------------------------------------------------------------ text

\* Option<T>: None is the empty tuple, Some(x) the one-element tuple.
None == <<>>
Some(x) == <<x>>
IsSome(o) == Len(o) = 1
Unwrap(o) == o[1]
Range(s) == {s[i] : i \in DOMAIN s}

\* the i-th character of a string, as a string
At(s, i) == SubSeq(s, i, i)
Indices(s) == 1..Len(s)

RECURSIVE Rep(_, _)
Rep(c, n) == IF n <= 0 THEN "" ELSE c \o Rep(c, n - 1)

Digits == "0123456789"
LowerLetters == "abcdefghijklmnopqrstuvwxyz"
UpperLetters == "ABCDEFGHIJKLMNOPQRSTUVWXYZ"
HexLower == "0123456789abcdef"
HexUpper == "ABCDEF"
Chars(s) == {At(s, i) : i \in Indices(s)}
IndexOf(s, c) == CHOOSE i \in Indices(s) : At(s, i) = c
IsWhitespace(c) == c \in {" ", "\t", "\n", "\r"}
UpperChars == Chars(UpperLetters)
HexChars == Chars(HexLower) \cup Chars(HexUpper)
LowerOf == [c \in UpperChars |-> At(LowerLetters, IndexOf(UpperLetters, c))]
HexValue == [c \in Chars(HexLower) |-> IndexOf(HexLower, c)]

\* char::to_lowercase on ASCII
LowerChar(c) == IF c \in UpperChars THEN LowerOf[c] ELSE c
RECURSIVE to_lowercase(_)
to_lowercase(s) == IF s = "" THEN "" ELSE LowerChar(Head(s)) \o to_lowercase(Tail(s))

is_ascii_hexdigit(c) == c \in HexChars

starts_with(s, p) == Len(p) <= Len(s) /\ SubSeq(s, 1, Len(p)) = p
ends_with(s, p) == Len(p) <= Len(s) /\ SubSeq(s, Len(s) - Len(p) + 1, Len(s)) = p
strip_prefix(s, p) ==
    IF starts_with(s, p) THEN Some(SubSeq(s, Len(p) + 1, Len(s))) ELSE None
strip_suffix(s, p) ==
    IF ends_with(s, p) THEN Some(SubSeq(s, 1, Len(s) - Len(p))) ELSE None

RECURSIVE trim_end_matches(_, _)
trim_end_matches(s, p) ==
    IF p /= "" /\ ends_with(s, p)
    THEN trim_end_matches(SubSeq(s, 1, Len(s) - Len(p)), p)
    ELSE s

RECURSIVE trim_start(_)
trim_start(s) == IF s /= "" /\ IsWhitespace(Head(s)) THEN trim_start(Tail(s)) ELSE s
RECURSIVE trim_end(_)
trim_end(s) ==
    IF s /= "" /\ IsWhitespace(At(s, Len(s))) THEN trim_end(SubSeq(s, 1, Len(s) - 1)) ELSE s
trim(s) == trim_end(trim_start(s))

\* the place of the first occurrence of character c in s at or after i, 0 if none
RECURSIVE Find(_, _, _)
Find(s, c, i) == IF i > Len(s) THEN 0 ELSE IF At(s, i) = c THEN i ELSE Find(s, c, i + 1)

\* str::lines: split at "\n", drop one "\r" before it, no final empty line
StripCr(l) == IF ends_with(l, "\r") THEN SubSeq(l, 1, Len(l) - 1) ELSE l
RECURSIVE lines(_)
lines(s) ==
    IF s = "" THEN <<>>
    ELSE LET i == Find(s, "\n", 1)
         IN  IF i = 0 THEN <<StripCr(s)>>
             ELSE <<StripCr(SubSeq(s, 1, i - 1))>> \o lines(SubSeq(s, i + 1, Len(s)))

\* [String]::join
RECURSIVE join(_, _)
join(ls, sep) ==
    IF ls = <<>> THEN ""
    ELSE IF Len(ls) = 1 THEN ls[1]
    ELSE ls[1] \o sep \o join(Tail(ls), sep)

\* i64::to_string
RECURSIVE NatToString(_)
NatToString(n) ==
    IF n < 10 THEN At(Digits, n + 1)
    ELSE NatToString(n \div 10) \o At(Digits, (n % 10) + 1)
IntToString(n) == IF n < 0 THEN "-" \o NatToString(-n) ELSE NatToString(n)
\* {:0w$}: zero-padded decimal of a natural number
Pad(n, w) ==
    LET d == NatToString(n)
    IN  IF Len(d) >= w THEN d ELSE Rep("0", w - Len(d)) \o d

\* String::cmp on lowercase hexadecimal text: bytewise, "0".."9" before "a".."f"
HexOrd(c) == HexValue[c]
\* the first place in lo..hi where a and b differ (they do differ there)
RECURSIVE FirstDiff(_, _, _, _)
FirstDiff(a, b, lo, hi) ==
    IF lo = hi THEN lo
    ELSE LET mid == (lo + hi) \div 2
         IN  IF SubSeq(a, lo, mid) = SubSeq(b, lo, mid)
             THEN FirstDiff(a, b, mid + 1, hi)
             ELSE FirstDiff(a, b, lo, mid)
StrLess(a, b) ==
    LET n == IF Len(a) < Len(b) THEN Len(a) ELSE Len(b)
    IN  IF SubSeq(a, 1, n) = SubSeq(b, 1, n) THEN Len(a) < Len(b)
        ELSE LET i == FirstDiff(a, b, 1, n)
             IN  HexOrd(At(a, i)) < HexOrd(At(b, i))

\* ------------------------------------------------------------ constants

MARKER_PREFIX == "Vanity-Source-Commit: "
EXPECTED_VANITY_REMOTE == "https://github.com/TeamDman/Vanity"
ShaLen == 40
ShortLen == 12
GitHubSsh == "git@github.com:"
GitHubHttps == "https://github.com/"
GitHubHttp == "http://github.com/"
DotGit == ".git"
DefaultName == "Vanity"
DefaultEmail == "vanity@example.invalid"
MirrorTitle == "Vanity mirror: "
SourceRepoField == "Source-Repo: "
SourceUrlField == "Source-Commit-URL: "
SourceDateField == "Source-Date: "
SourceSubjectField == "Source-Subject: "
CommitSegment == "/commit/"

\* ------------------------------------------------- dates (chrono crate)

I32_MAX == 2147483647
I32_MIN == -2147483647 - 1
SecondsPerDay == 86400
\* NaiveDate::MIN and NaiveDate::MAX as days from 1970-01-01
ChronoMinDay == -96465293
ChronoMaxDay == 95026236

\* i32::saturating_mul(offset_minutes, 60)
saturating_mul60(m) ==
    IF m > I32_MAX \div 60 THEN I32_MAX
    ELSE IF m < -(I32_MAX \div 60) THEN I32_MIN
    ELSE m * 60

\* FixedOffset::east_opt
east_opt(secs) == IF -SecondsPerDay < secs /\ secs < SecondsPerDay THEN Some(secs) ELSE None

\* Utc.timestamp_opt(seconds, 0).single()
timestamp_opt(seconds) ==
    LET day == seconds \div SecondsPerDay
    IN  IF ChronoMinDay <= day /\ day <= ChronoMaxDay THEN Some(seconds) ELSE None

\* the proleptic Gregorian date of a day number (days from 1970-01-01)
CivilFromDays(days) ==
    LET z == days + 719468
        era == z \div 146097
        doe == z - era * 146097
        yoe == (doe - doe \div 1460 + doe \div 36524 - doe \div 146096) \div 365
        doy == doe - (365 * yoe + yoe \div 4 - yoe \div 100)
        mp == (5 * doy + 2) \div 153
        d == doy - (153 * mp + 2) \div 5 + 1
        m == IF mp < 10 THEN mp + 3 ELSE mp - 9
        y == yoe + era * 400 + (IF m <= 2 THEN 1 ELSE 0)
    IN  [year |-> y, month |-> m, day |-> d]

\* DateTime<FixedOffset>::to_rfc3339 of the instant `seconds` shown at `offset`
to_rfc3339(seconds, offset) ==
    LET local == seconds + offset
        date == CivilFromDays(local \div SecondsPerDay)
        sod == local % SecondsPerDay
        year == IF 0 <= date.year /\ date.year <= 9999 THEN Pad(date.year, 4)
                ELSE IF date.year < 0 THEN "-" \o Pad(-date.year, 4)
                ELSE "+" \o Pad(date.year, 4)
        abs == IF offset < 0 THEN -offset ELSE offset
    IN  year \o "-" \o Pad(date.month, 2) \o "-" \o Pad(date.day, 2) \o "T"
        \o Pad(sod \div 3600, 2) \o ":" \o Pad((sod % 3600) \div 60, 2)
        \o ":" \o Pad(sod % 60, 2)
        \o (IF offset < 0 THEN "-" ELSE "+")
        \o Pad(abs \div 3600, 2) \o ":" \o Pad((abs % 3600) \div 60, 2)

\* (variant: the date is always shown in UTC)
format_source_date_utc(seconds, offset_minutes) ==
    LET offset == east_opt(0)
    IN  IF ~IsSome(offset) THEN IntToString(seconds)
        ELSE IF IsSome(timestamp_opt(seconds))
             THEN to_rfc3339(seconds, Unwrap(offset))
             ELSE IntToString(seconds)

format_source_date(seconds, offset_minutes) ==
    LET offset_seconds == saturating_mul60(offset_minutes)
        first == east_opt(offset_seconds)
        offset == IF IsSome(first) THEN first ELSE east_opt(0)
    IN  IF ~IsSome(offset) THEN IntToString(seconds)
        ELSE IF IsSome(timestamp_opt(seconds))
             THEN to_rfc3339(seconds, Unwrap(offset))
             ELSE IntToString(seconds)

\* ------------------------------------------------- urls and messages

derive_github_web_base(source_hint) ==
    LET hint == trim(source_hint)
        path == strip_prefix(hint, GitHubSsh)
    IN  IF IsSome(path)
        THEN Some(GitHubHttps \o trim_end_matches(Unwrap(path), DotGit))
        ELSE IF starts_with(hint, GitHubHttps) \/ starts_with(hint, GitHubHttp)
        THEN Some(trim_end_matches(trim_end_matches(hint, DotGit), "/"))
        ELSE None

source_commit_url(commit) ==
    IF IsSome(commit.source_web_base_url)
    THEN Some(trim_end_matches(Unwrap(commit.source_web_base_url), "/")
              \o CommitSegment \o commit.sha)
    ELSE None

\* (variant: the subject is written on a line of its own, without its field name)
build_commit_message_bare_subject(commit) ==
    join(<< MirrorTitle \o SubSeq(commit.sha, 1, ShortLen),
            "",
            SourceRepoField \o commit.source_repo_hint,
            MARKER_PREFIX \o commit.sha,
            SourceDateField \o format_source_date(commit.author_date_seconds,
                                                  commit.author_offset_minutes),
            commit.subject >>, "\n")

build_commit_message(commit) ==
    LET head == << MirrorTitle \o SubSeq(commit.sha, 1, ShortLen),
                   "",
                   SourceRepoField \o commit.source_repo_hint,
                   MARKER_PREFIX \o commit.sha >>
        url == source_commit_url(commit)
        withUrl == IF IsSome(url) THEN Append(head, SourceUrlField \o Unwrap(url)) ELSE head
        withDate == Append(withUrl, SourceDateField \o
                        format_source_date(commit.author_date_seconds,
                                           commit.author_offset_minutes))
    IN  join(Append(withDate, SourceSubjectField \o commit.subject), "\n")

\* (variant: the text after the prefix is not trimmed)
MessageMarkersUntrimmed(message) ==
    LET ls == lines(message)
        norm(i) == to_lowercase(Unwrap(strip_prefix(ls[i], MARKER_PREFIX)))
        accepted(normalized) ==
            /\ Len(normalized) = ShaLen
            /\ \A j \in Indices(normalized) : is_ascii_hexdigit(At(normalized, j))
    IN  { norm(i) : i \in { k \in DOMAIN ls :
            IsSome(strip_prefix(ls[k], MARKER_PREFIX)) /\ accepted(norm(k)) } }

\* the marker values one commit message contributes (the inner loop of
\* existing_mirrored_shas)
MessageMarkers(message) ==
    LET ls == lines(message)
        norm(i) == to_lowercase(trim(Unwrap(strip_prefix(ls[i], MARKER_PREFIX))))
        accepted(normalized) ==
            /\ Len(normalized) = ShaLen
            /\ \A j \in Indices(normalized) : is_ascii_hexdigit(At(normalized, j))
    IN  { norm(i) : i \in { k \in DOMAIN ls :
            IsSome(strip_prefix(ls[k], MARKER_PREFIX)) /\ accepted(norm(k)) } }

\* (variant: trailing slashes are removed before the .git suffix)
normalize_remote_url_slash_first(url) ==
    LET lowered == to_lowercase(trim(url))
        path == strip_prefix(lowered, GitHubSsh)
        rewritten == IF IsSome(path) THEN GitHubHttps \o Unwrap(path) ELSE lowered
        noSlash == trim_end_matches(rewritten, "/")
        stripped == strip_suffix(noSlash, DotGit)
    IN  IF IsSome(stripped) THEN Unwrap(stripped) ELSE noSlash

normalize_remote_url(url) ==
    LET lowered == to_lowercase(trim(url))
        path == strip_prefix(lowered, GitHubSsh)
        rewritten == IF IsSome(path) THEN GitHubHttps \o Unwrap(path) ELSE lowered
        stripped == strip_suffix(rewritten, DotGit)
        noGit == IF IsSome(stripped) THEN Unwrap(stripped) ELSE rewritten
    IN  trim_end_matches(noGit, "/")

\* Commit::summary: the first paragraph of the message on one line
Summary(message) ==
    LET ls == lines(message)
        blank == {i \in DOMAIN ls : trim(ls[i]) = ""}
        last == IF blank = {} THEN Len(ls)
                ELSE (CHOOSE i \in blank : \A k \in blank : i <= k) - 1
    IN  trim(join(SubSeq(ls, 1, last), " "))

\* Oid::to_string: 40 lowercase hexadecimal digits
RECURSIVE HexOf(_)
HexOf(n) == IF n < 16 THEN At(HexLower, n + 1) ELSE HexOf(n \div 16) \o At(HexLower, (n % 16) + 1)
OidToString(oid) == Rep("0", ShaLen - Len(HexOf(oid))) \o HexOf(oid)

\* ------------------------------------------------------- the repositories

\* Bounds of the model
MaxRuns == 2
MaxLimit == 1
MaxReadRepos == 2

\* The git repositories on disk: the mirror target and two source repositories
RepoIds == {"T", "A", "B"}
\* Path::display of each repository's canonical path
PathOf(id) == "/r/" \o to_lowercase(id)

\* Object ids. Src1 and Src2 differ in the last hexadecimal digit only.
Src1 == 16 + 10
Src2 == 16 + 11
Src3 == 2 * 16 + 12
Src4 == 16 + 0
Base0 == 11 * 16
\* the id of the n-th commit the Commit Writer creates (git derives it from the
\* commit's content; every new commit has a new parent, hence a new id)
NewOid(n) == 3840 + n

SubjectFix == "fix"
InitialMessage == "initial"
OriginShorthand == "git@github.com:TeamDman/Vanity.git"
OriginOther == "https://example.com/other/repo"
OriginA == "git@github.com:u/a.git"

T0 == 1700000000
Sig(name, email, seconds, offset) ==
    [name |-> name, email |-> email, seconds |-> seconds, offset_minutes |-> offset]
Dev == "dev"
DevMail == "dev@example.invalid"

\* The commits that exist in the source repositories' world. Src1 and Src2
\* carry the same author time; Src3 is the oldest and its subject is itself a
\* marker line for Src4.
PoolObjects ==
    (Src1 :> [tree |-> "t1", parents |-> <<>>,
              author |-> Sig(Dev, DevMail, T0 + 100, 0),
              committer |-> Sig(Dev, DevMail, T0 + 100, 0),
              message |-> SubjectFix])
 @@ (Src2 :> [tree |-> "t2", parents |-> <<Src1>>,
              author |-> Sig(Dev, DevMail, T0 + 100, 60),
              committer |-> Sig(Dev, DevMail, T0 + 150, 60),
              message |-> SubjectFix \o "\n\n" \o MARKER_PREFIX \o OidToString(Src3)])
 @@ (Src3 :> [tree |-> "t3", parents |-> <<>>,
              author |-> Sig(Dev, DevMail, T0 + 50, -300),
              committer |-> Sig(Dev, DevMail, T0 + 50, -300),
              message |-> MARKER_PREFIX \o OidToString(Src4)])
 @@ (Src4 :> [tree |-> "t4", parents |-> <<Src2>>,
              author |-> Sig(Dev, DevMail, T0 + 200, 0),
              committer |-> Sig(Dev, DevMail, T0 + 200, 0),
              message |-> SubjectFix])
 @@ (Base0 :> [tree |-> "t0", parents |-> <<>>,
              author |-> Sig(Dev, DevMail, T0, 0),
              committer |-> Sig(Dev, DevMail, T0, 0),
              message |-> InitialMessage])


RefNames == {"main", "dev"}
NoRefs == [r \in RefNames |-> None]

VARIABLES
    config,     \* VanityConfig: this_repo (Option) and read_repos (Vec)
    repos,      \* per repository: references (HEAD is on "main"), object ids, origin, identity
    odb,        \* the content of every commit object, by id
    pc,         \* where the sync run is: "idle", "ingest" or "write"
    run,        \* the locals of the sync run in progress
    doneOrder,  \* the order in which the parallel ingestion tasks completed
    last,       \* what the last finished run returned and did
    prev,       \* the same for the run before it
    mirrored,   \* every commit the Commit Writer created, with its source commit
    nruns       \* sync runs started

vars == <<config, repos, odb, pc, run, doneOrder, last, prev, mirrored, nruns>>

\* --------------------------------------------------- repository reads

Parents(o) == Range(odb[o].parents)

\* every commit reachable from the commits in `from` (a revwalk's range)
RECURSIVE Reachable(_)
Reachable(from) ==
    LET more == from \cup UNION {Parents(o) : o \in from}
    IN  IF more = from THEN from ELSE Reachable(more)

\* Revwalk with Sort::TOPOLOGICAL | Sort::TIME: no commit before all of its
\* children in the range, newer commit time first among the rest
RECURSIVE Revwalk(_)
Revwalk(todo) ==
    IF todo = {} THEN <<>>
    ELSE LET ready == {c \in todo : \A d \in todo : c \notin Parents(d)}
             newer(c, d) ==
                 \/ odb[c].committer.seconds > odb[d].committer.seconds
                 \/ /\ odb[c].committer.seconds = odb[d].committer.seconds
                    /\ (c = d \/ StrLess(OidToString(d), OidToString(c)))
             pick == CHOOSE c \in ready : \A d \in ready : newer(c, d)
         IN  <<pick>> \o Revwalk(todo \ {pick})

\* repo.head(): the commit HEAD's branch points to, None while it is unborn
HeadOf(id) == repos[id].refs["main"]

\* the first-parent chain from a commit down to a root, newest first
RECURSIVE Chain(_, _)
Chain(objects, tip) ==
    IF ~IsSome(tip) THEN <<>>
    ELSE LET ps == objects[Unwrap(tip)].parents
         IN  <<Unwrap(tip)>> \o Chain(objects, IF ps = <<>> THEN None ELSE Some(ps[1]))

repo_origin_url(id) == repos[id].origin

\* (variant: only the message of the tip commit is scanned)
existing_mirrored_shas_tip_only(id) ==
    IF ~IsSome(HeadOf(id)) THEN {}
    ELSE MessageMarkers(odb[Unwrap(HeadOf(id))].message)

existing_mirrored_shas(id) ==
    IF ~IsSome(HeadOf(id)) THEN {}
    ELSE UNION {MessageMarkers(odb[o].message) : o \in Reachable({Unwrap(HeadOf(id))})}

\* (variant: the committer time is recorded)
gather_source_commits_for_repo_committer_time(id) ==
    LET source_hint == IF IsSome(repo_origin_url(id)) THEN Unwrap(repo_origin_url(id))
                       ELSE PathOf(id)
        source_web == derive_github_web_base(source_hint)
        targets == {Unwrap(repos[id].refs[r]) : r \in {n \in RefNames : IsSome(repos[id].refs[n])}}
        walk == Revwalk(Reachable(targets))
    IN  [i \in DOMAIN walk |->
            [sha |-> OidToString(walk[i]),
             source_repo_hint |-> source_hint,
             source_web_base_url |-> source_web,
             author_date_seconds |-> odb[walk[i]].committer.seconds,
             author_offset_minutes |-> odb[walk[i]].committer.offset_minutes,
             subject |-> Summary(odb[walk[i]].message)]]

gather_source_commits_for_repo(id) ==
    LET source_hint == IF IsSome(repo_origin_url(id)) THEN Unwrap(repo_origin_url(id))
                       ELSE PathOf(id)
        source_web == derive_github_web_base(source_hint)
        targets == {Unwrap(repos[id].refs[r]) : r \in {n \in RefNames : IsSome(repos[id].refs[n])}}
        walk == Revwalk(Reachable(targets))
    IN  [i \in DOMAIN walk |->
            [sha |-> OidToString(walk[i]),
             source_repo_hint |-> source_hint,
             source_web_base_url |-> source_web,
             author_date_seconds |-> odb[walk[i]].author.seconds,
             author_offset_minutes |-> odb[walk[i]].author.offset_minutes,
             subject |-> Summary(odb[walk[i]].message)]]

\* --------------------------------------------------- merge and pending

\* Result<Vec<SourceCommit>>: Ok is Some(commits), Err carries the failure
Err(e) == <<"Err", e>>
IsErr(r) == Len(r) = 2

\* (variant: a failed ingestion is skipped)
FirstErrorIgnored(per_repo_results) == None

\* `per_repo?` in the merge loop: the first failed ingestion in the order of
\* read_repos, None when every ingestion succeeded
FirstError(per_repo_results) ==
    LET failed == {i \in DOMAIN per_repo_results : IsErr(per_repo_results[i])}
    IN  IF failed = {} THEN None
        ELSE Some(CHOOSE i \in failed : \A k \in failed : i <= k)

\* the commit lists of the ingestions that succeeded, in the order of read_repos
Oks(per_repo_results) ==
    LET ok == SelectSeq(per_repo_results, IsSome)
    IN  [i \in DOMAIN ok |-> Unwrap(ok[i])]

RECURSIVE Flatten(_)
Flatten(lists) == IF lists = <<>> THEN <<>> ELSE Head(lists) \o Flatten(Tail(lists))

\* (variant: later duplicates are kept)
DedupNone(commits, seen_shas) == commits

\* keep the first commit of each sha (seen_shas.insert)
RECURSIVE DedupFirst(_, _)
DedupFirst(commits, seen_shas) ==
    IF commits = <<>> THEN <<>>
    ELSE IF Head(commits).sha \in seen_shas THEN DedupFirst(Tail(commits), seen_shas)
    ELSE <<Head(commits)>> \o DedupFirst(Tail(commits), seen_shas \cup {Head(commits).sha})

\* the comparator of all.sort_by: author seconds, then sha
CommitLess(left, right) ==
    \/ left.author_date_seconds < right.author_date_seconds
    \/ /\ left.author_date_seconds = right.author_date_seconds
       /\ StrLess(left.sha, right.sha)

\* (variant: the merged list is left in merge order)
SortNone(commits) == commits

\* a stable sort by CommitLess
RECURSIVE SortCommits(_)
SortCommits(commits) ==
    IF commits = <<>> THEN <<>>
    ELSE LET minimal == {i \in DOMAIN commits : \A k \in DOMAIN commits : ~CommitLess(commits[k], commits[i])}
             i == CHOOSE k \in minimal : \A m \in minimal : k <= m
         IN  <<commits[i]>> \o SortCommits(SubSeq(commits, 1, i - 1) \o SubSeq(commits, i + 1, Len(commits)))

\* (variant: the results are read in the order the tasks completed)
CollectByCompletion(per_repo_results) ==
    [k \in DOMAIN doneOrder |-> per_repo_results[doneOrder[k]]]

\* the per-repository results in the order the merge loop reads them: collect()
\* of the indexed parallel iterator keeps the order of read_repos
CollectOrder(per_repo_results) == per_repo_results

\* gather_source_commits after the parallel map: merge, dedup, sort
gather_source_commits(per_repo_results) ==
    SortCommits(DedupFirst(Flatten(CollectOrder(per_repo_results)), {}))

\* (variant: the limit is ignored)
truncate_none(list, limit) == list

\* (variant: the last `limit` entries are kept)
truncate_tail(list, limit) ==
    IF IsSome(limit) /\ Unwrap(limit) < Len(list)
    THEN SubSeq(list, Len(list) - Unwrap(limit) + 1, Len(list))
    ELSE list

\* Vec::truncate under `if let Some(limit)`
truncate(list, limit) ==
    IF IsSome(limit) /\ Unwrap(limit) < Len(list) THEN SubSeq(list, 1, Unwrap(limit)) ELSE list

\* (variant: the marker set is not consulted)
UnmirroredNoFilter(source_commits, existing_markers) == source_commits

Unmirrored(source_commits, existing_markers) ==
    SelectSeq(source_commits, LAMBDA commit : commit.sha \notin existing_markers)

\* (variant: the last pending commit is dropped)
PendingButLast(source_commits, existing_markers, limit) ==
    LET pending == truncate(Unmirrored(source_commits, existing_markers), limit)
    IN  IF pending = <<>> THEN pending ELSE SubSeq(pending, 1, Len(pending) - 1)

\* sync's pending list: unmirrored source commits, cut at the limit
Pending(source_commits, existing_markers, limit) ==
    truncate(Unmirrored(source_commits, existing_markers), limit)

\* --------------------------------------------------- guard and writer

\* (variant: a target without an origin passes)
assert_vanity_target_repo_lenient(id, allow_non_vanity_target) ==
    IF allow_non_vanity_target THEN "ok"
    ELSE IF ~IsSome(repos[id].origin) THEN "ok"
    ELSE IF normalize_remote_url(Unwrap(repos[id].origin))
              /= normalize_remote_url(EXPECTED_VANITY_REMOTE)
    THEN "OriginMismatch"
    ELSE "ok"

\* (variant: the comparison of the normalized urls is inverted)
assert_vanity_target_repo_inverted(id, allow_non_vanity_target) ==
    IF allow_non_vanity_target THEN "ok"
    ELSE IF ~IsSome(repos[id].origin) THEN "MissingOrigin"
    ELSE IF normalize_remote_url(Unwrap(repos[id].origin))
              = normalize_remote_url(EXPECTED_VANITY_REMOTE)
    THEN "OriginMismatch"
    ELSE "ok"

\* "ok", or the error the guard returns
assert_vanity_target_repo(id, allow_non_vanity_target) ==
    IF allow_non_vanity_target THEN "ok"
    ELSE IF ~IsSome(repos[id].origin) THEN "MissingOrigin"
    ELSE IF normalize_remote_url(Unwrap(repos[id].origin))
              /= normalize_remote_url(EXPECTED_VANITY_REMOTE)
    THEN "OriginMismatch"
    ELSE "ok"

IsBlank(value) == trim(value) = ""

\* (variant: one absent or blank field makes both fields fall back)
resolve_repo_identity_both(id) ==
    LET usable(field) == IsSome(field) /\ ~IsBlank(Unwrap(field))
    IN  IF usable(repos[id].user_name) /\ usable(repos[id].user_email)
        THEN <<Unwrap(repos[id].user_name), Unwrap(repos[id].user_email)>>
        ELSE <<DefaultName, DefaultEmail>>

\* (name, email): each from the repository's configuration, or its default
resolve_repo_identity(id) ==
    LET pick(field, default) ==
            IF IsSome(field) /\ ~IsBlank(Unwrap(field)) THEN Unwrap(field) ELSE default
    IN  <<pick(repos[id].user_name, DefaultName), pick(repos[id].user_email, DefaultEmail)>>

\* (variant: on a repository without a commit, a root commit is created)
create_empty_commit_root(id, message, source) ==
    LET signature == Sig(DefaultName, DefaultEmail,
                         source.author_date_seconds, source.author_offset_minutes)
    IN  Some([tree |-> IF IsSome(HeadOf(id)) THEN odb[Unwrap(HeadOf(id))].tree ELSE "empty",
              parents |-> HeadOf(id),
              author |-> signature,
              committer |-> signature,
              message |-> message])

\* (variant: the new commit is given no parent)
create_empty_commit_orphan(id, message, source) ==
    IF ~IsSome(HeadOf(id)) THEN None
    ELSE Some([tree |-> odb[Unwrap(HeadOf(id))].tree,
               parents |-> <<>>,
               author |-> Sig(DefaultName, DefaultEmail,
                              source.author_date_seconds, source.author_offset_minutes),
               committer |-> Sig(DefaultName, DefaultEmail,
                                 source.author_date_seconds, source.author_offset_minutes),
               message |-> message])

\* the commit object create_empty_commit builds on the current tip (None when
\* the repository has no current commit)
create_empty_commit(id, message, source) ==
    IF ~IsSome(HeadOf(id)) THEN None
    ELSE LET head_commit == Unwrap(HeadOf(id))
             identity == resolve_repo_identity(id)
             signature == Sig(identity[1], identity[2],
                              source.author_date_seconds, source.author_offset_minutes)
         IN  Some([tree |-> odb[head_commit].tree,
                   parents |-> <<head_commit>>,
                   author |-> signature,
                   committer |-> signature,
                   message |-> message])

\* --------------------------------------------------- the state machine

\* VanityConfig::default()
NoConfig == [this_repo |-> None, read_repos |-> <<>>]
NoRun == [active |-> FALSE]
NoOutcome == [result |-> "none"]

\* the commits of a repository's tip history, with their content
Snapshot(id) ==
    IF ~IsSome(HeadOf(id)) THEN <<>>
    ELSE [o \in Reachable({Unwrap(HeadOf(id))}) |-> odb[o]]

\* the states the target repository starts in: with one unmarked commit and
\* no origin, the expected origin in ssh shorthand or another origin; or empty
TargetStates ==
    {[head |-> Some(Base0), origin |-> o] : o \in {None, Some(OriginShorthand), Some(OriginOther)}}
    \cup {[head |-> None, origin |-> Some(OriginShorthand)]}

\* the repositories before the first command, for a state of the target
InitRepos(target) ==
    [id \in RepoIds |->
        CASE id = "T" ->
                [refs |-> [NoRefs EXCEPT !["main"] = target.head],
                 commits |-> Range(target.head),
                 origin |-> target.origin,
                 user_name |-> None, user_email |-> None]
          [] id = "A" ->
                [refs |-> [NoRefs EXCEPT !["main"] = Some(Src2)],
                 commits |-> {Src1, Src2},
                 origin |-> Some(OriginA),
                 user_name |-> Some(Dev), user_email |-> Some(DevMail)]
          [] id = "B" ->
                [refs |-> [main |-> Some(Src3), dev |-> Some(Src1)],
                 commits |-> {Src1, Src3},
                 origin |-> None,
                 user_name |-> Some(Dev), user_email |-> Some(DevMail)]]

Init ==
    /\ config = [this_repo |-> None, read_repos |-> <<>>]
    /\ \E target \in TargetStates : repos = InitRepos(target)
    /\ odb = PoolObjects
    /\ pc = "idle"
    /\ run = NoRun
    /\ doneOrder = <<>>
    /\ last = NoOutcome
    /\ prev = NoOutcome
    /\ mirrored = <<>>
    /\ nruns = 0

\* ---- configuration commands

\* Path::canonicalize followed by Repository::open: the repository a command
\* line path names, None when the path does not exist or is no repository
ThisPaths == {"T", "X"}
ReadPaths == {"A", "B", "T", "./A", "X"}
canonicalize_git_repo(path) ==
    CASE path = "./A" -> Some("A")
      [] path \in RepoIds -> Some(path)
      [] OTHER -> None

set_this_repo(cfg, path) ==
    LET canonical == canonicalize_git_repo(path)
    IN  IF IsSome(canonical) THEN [cfg EXCEPT !.this_repo = canonical] ELSE cfg

add_read_repo(cfg, path) ==
    LET canonical == canonicalize_git_repo(path)
    IN  IF IsSome(canonical) /\ Unwrap(canonical) \notin Range(cfg.read_repos)
        THEN [cfg EXCEPT !.read_repos = Append(@, Unwrap(canonical))]
        ELSE cfg

\* `this-repo set <path>`
ThisRepoSet(path) ==
    /\ pc = "idle"
    /\ nruns = 0
    /\ config' = set_this_repo(config, path)
    /\ UNCHANGED <<repos, odb, pc, run, doneOrder, last, prev, mirrored, nruns>>

\* `read-repo add <path>`
ReadRepoAdd(path) ==
    /\ pc = "idle"
    /\ nruns = 0
    /\ Len(config.read_repos) < MaxReadRepos
    /\ config' = add_read_repo(config, path)
    /\ UNCHANGED <<repos, odb, pc, run, doneOrder, last, prev, mirrored, nruns>>

\* ---- the world outside: a developer commits to a source repository

SourceAdvance(id, o) ==
    /\ pc = "idle"
    /\ o \notin repos[id].commits
    /\ Range(PoolObjects[o].parents) \subseteq repos[id].commits
    /\ \E r \in RefNames :
        /\ IsSome(repos[id].refs[r])
        /\ Unwrap(repos[id].refs[r]) \in Range(PoolObjects[o].parents)
        /\ repos' = [repos EXCEPT ![id].refs[r] = Some(o), ![id].commits = @ \cup {o}]
    /\ UNCHANGED <<config, odb, pc, run, doneOrder, last, prev, mirrored, nruns>>

\* ---- sync

\* (variant: the preview flag is ignored)
MutatingAlways(dry_run) == TRUE

\* `if !dry_run` before the guard and before the writer
Mutating(dry_run) == ~dry_run

\* (variant: one more than the pending commits)
SummaryCreatedOffByOne(pending) == Len(pending) + 1

\* SyncSummary.created
SummaryCreated(pending) == Len(pending)

Outcome(r, result, error, summary) ==
    [result |-> result, error |-> error, summary |-> summary,
     dry_run |-> r.dry_run, allow_non_vanity_target |-> r.allow_non_vanity_target,
     limit |-> r.limit, config |-> r.config,
     head0 |-> r.head0, history0 |-> r.history0,
     existing_markers |-> r.existing_markers, queue |-> r.queue, ingested |-> r.ingested,
     sources |-> r.sources, unmirrored |-> r.unmirrored, written |-> r.written]

Finish(outcome) ==
    /\ prev' = last
    /\ last' = outcome
    /\ pc' = "idle"
    /\ run' = NoRun
    /\ doneOrder' = <<>>

\* sync up to the marker scan: configuration checks, open, Safety Guard, scan
\* (max_runs bounds the number of runs of a behaviour)
\* io is what the disk does: "ok", or the read that fails ("open": the target
\* cannot be opened, "scan": the walk of the target's history fails)
SyncBeginWithin(max_runs, io, dry_run, allow_non_vanity_target, limit) ==
    /\ pc = "idle"
    /\ nruns < max_runs
    /\ nruns' = nruns + 1
    /\ LET r0 == [active |-> TRUE, dry_run |-> dry_run,
                  allow_non_vanity_target |-> allow_non_vanity_target,
                  limit |-> limit, config |-> config,
                  head0 |-> None, history0 |-> <<>>, mirrored0 |-> Len(mirrored),
                  existing_markers |-> {}, queue |-> <<>>, ingested |-> 0,
                  sources |-> {}, unmirrored |-> 0, written |-> 0]
       IN  IF ~IsSome(config.this_repo)
           THEN Finish(Outcome(r0, "err", "NotConfigured", None))
           ELSE IF config.read_repos = <<>>
           THEN Finish(Outcome(r0, "err", "NoReadRepos", None))
           ELSE LET this_repo == Unwrap(config.this_repo)
                    r1 == [r0 EXCEPT !.head0 = HeadOf(this_repo),
                                     !.history0 = Snapshot(this_repo)]
                    guard == IF Mutating(dry_run)
                             THEN assert_vanity_target_repo(this_repo, allow_non_vanity_target)
                             ELSE "ok"
                IN  IF io = "open"
                    THEN Finish(Outcome(r1, "err", "OpenTarget", None))
                    ELSE IF guard /= "ok"
                    THEN Finish(Outcome(r1, "err", guard, None))
                    ELSE IF io = "scan" /\ IsSome(HeadOf(this_repo))
                    THEN Finish(Outcome(r1, "err", "MarkerScan", None))
                    ELSE /\ pc' = "ingest"
                         /\ run' = [r1 EXCEPT !.existing_markers =
                                                    existing_mirrored_shas(this_repo)] @@
                              [this_repo |-> this_repo,
                               per_repo_results |-> [i \in DOMAIN config.read_repos |-> None],
                               source_commits |-> <<>>,
                               pending |-> <<>>,
                               next |-> 1]
                         /\ doneOrder' = <<>>
                         /\ UNCHANGED <<last, prev>>
    /\ UNCHANGED <<config, repos, odb, mirrored>>

SyncBegin(dry_run, allow_non_vanity_target, limit) ==
    SyncBeginWithin(MaxRuns, "ok", dry_run, allow_non_vanity_target, limit)

\* (variant: collect() returns as soon as one task has finished)
IngestionCompleteAny(per_repo_results) ==
    \E i \in DOMAIN per_repo_results : per_repo_results[i] /= None

\* collect() returns when every task of the parallel map has finished
IngestionComplete(per_repo_results) ==
    \A i \in DOMAIN per_repo_results : per_repo_results[i] /= None

\* one task of the parallel map: gather_source_commits_for_repo on read_repos[i]
IngestRepo(i) ==
    /\ pc = "ingest"
    /\ i \in DOMAIN run.per_repo_results
    /\ run.per_repo_results[i] = None
    /\ run' = [run EXCEPT !.per_repo_results[i] =
                   Some(gather_source_commits_for_repo(run.config.read_repos[i]))]
    /\ doneOrder' = Append(doneOrder, i)
    /\ UNCHANGED <<config, repos, odb, pc, last, prev, mirrored, nruns>>

\* after collect(): merge, dedup, sort, then the pending list
SyncMerge ==
    /\ pc = "ingest"
    /\ IngestionComplete(run.per_repo_results)
    /\ ~IsSome(FirstError(run.per_repo_results))
    /\ LET source_commits == gather_source_commits(Oks(run.per_repo_results))
       IN  run' = [run EXCEPT
                !.ingested = Len(Oks(run.per_repo_results)),
                !.source_commits = source_commits,
                !.pending = Pending(source_commits, run.existing_markers, run.limit),
                !.sources = {source_commits[i].sha : i \in DOMAIN source_commits},
                !.queue = Unmirrored(source_commits, run.existing_markers),
                !.unmirrored = Len(Unmirrored(source_commits, run.existing_markers))]
    /\ pc' = "write"
    /\ UNCHANGED <<config, repos, odb, doneOrder, last, prev, mirrored, nruns>>

\* one iteration of the loop over pending
SyncWrite ==
    /\ pc = "write"
    /\ run.next <= Len(run.pending)
    /\ LET commit == run.pending[run.next]
           message == build_commit_message(commit)
           made == create_empty_commit(run.this_repo, message, commit)
           oid == NewOid(Len(mirrored))
       IN  IF ~Mutating(run.dry_run)
           THEN /\ run' = [run EXCEPT !.next = @ + 1]
                /\ UNCHANGED <<repos, odb, pc, doneOrder, last, prev, mirrored>>
           ELSE IF ~IsSome(made)
           THEN /\ Finish(Outcome(run, "err", "NoBaseCommit", None))
                /\ UNCHANGED <<repos, odb, mirrored>>
           ELSE /\ odb' = (oid :> Unwrap(made)) @@ odb
                /\ repos' = [repos EXCEPT ![run.this_repo].refs["main"] = Some(oid),
                                          ![run.this_repo].commits = @ \cup {oid}]
                /\ mirrored' = Append(mirrored, [oid |-> oid, source |-> commit])
                /\ run' = [run EXCEPT !.next = @ + 1, !.written = @ + 1]
                /\ UNCHANGED <<pc, doneOrder, last, prev>>
    /\ UNCHANGED <<config, nruns>>

\* the loop is over: Ok(SyncSummary)
SyncFinish ==
    /\ pc = "write"
    /\ run.next > Len(run.pending)
    /\ Finish(Outcome(run, "ok", "",
            Some([total_source_commits |-> Len(run.source_commits),
                  existing_markers |-> Cardinality(run.existing_markers),
                  created |-> SummaryCreated(run.pending)])))
    /\ UNCHANGED <<config, repos, odb, mirrored, nruns>>

Limits == {None} \cup {Some(k) : k \in 0..MaxLimit}

Next ==
    \/ \E path \in ThisPaths : ThisRepoSet(path)
    \/ \E path \in ReadPaths : ReadRepoAdd(path)
    \/ \E id \in {"A", "B"} : SourceAdvance(id, Src4)
    \/ \E dry_run \in BOOLEAN, allow \in BOOLEAN, limit \in Limits :
          SyncBegin(dry_run, allow, limit)
    \/ \E i \in 1..MaxReadRepos : IngestRepo(i)
    \/ SyncMerge
    \/ SyncWrite
    \/ SyncFinish

Spec == Init /\ [][Next]_vars

\* ---- the same system on a disk whose reads and writes may fail

\* a task of the parallel map fails: the repository cannot be opened or walked
IngestRepoFails(i) ==
    /\ pc = "ingest"
    /\ i \in DOMAIN run.per_repo_results
    /\ run.per_repo_results[i] = None
    /\ run' = [run EXCEPT !.per_repo_results[i] = Err("Ingest")]
    /\ doneOrder' = Append(doneOrder, i)
    /\ UNCHANGED <<config, repos, odb, pc, last, prev, mirrored, nruns>>

\* after collect(): the merge loop meets a failed ingestion and returns it
SyncIngestError ==
    /\ pc = "ingest"
    /\ IngestionComplete(run.per_repo_results)
    /\ IsSome(FirstError(run.per_repo_results))
    /\ Finish(Outcome([run EXCEPT !.ingested = Len(Oks(run.per_repo_results))],
                      "err", run.per_repo_results[Unwrap(FirstError(run.per_repo_results))][2],
                      None))
    /\ UNCHANGED <<config, repos, odb, mirrored, nruns>>

\* an iteration of the loop over pending in which Repository::commit fails
SyncWriteFails ==
    /\ pc = "write"
    /\ run.next <= Len(run.pending)
    /\ Mutating(run.dry_run)
    /\ IsSome(HeadOf(run.this_repo))
    /\ Finish(Outcome(run, "err", "CommitCreation", None))
    /\ UNCHANGED <<config, repos, odb, mirrored, nruns>>

NextFaults ==
    \/ ThisRepoSet("T")
    \/ \E path \in {"A", "B"} : ReadRepoAdd(path)
    \/ \E io \in {"ok", "open", "scan"}, dry_run \in BOOLEAN, allow \in BOOLEAN,
          limit \in {None, Some(MaxLimit)} :
          SyncBeginWithin(MaxRuns, io, dry_run, allow, limit)
    \/ \E i \in 1..MaxReadRepos : IngestRepo(i)
    \/ \E i \in 1..MaxReadRepos : IngestRepoFails(i)
    \/ SyncMerge
    \/ SyncWrite
    \/ SyncFinish
    \/ SyncIngestError
    \/ SyncWriteFails

SpecFaults == Init /\ [][NextFaults]_vars

\* ---- the identity configuration of the target: user.name and user.email
\* absent, empty, blank or set

NameValues == {None, Some(""), Some("  "), Some(Dev)}
EmailValues == {None, Some(" "), Some(DevMail)}

InitIdentity ==
    /\ config = add_read_repo(set_this_repo(NoConfig, "T"), "A")
    /\ \E target \in {t \in TargetStates : IsSome(t.head) /\ t.origin = Some(OriginShorthand)},
          name \in NameValues, email \in EmailValues :
          repos = [InitRepos(target) EXCEPT !["T"].user_name = name, !["T"].user_email = email]
    /\ odb = PoolObjects
    /\ pc = "idle"
    /\ run = NoRun
    /\ doneOrder = <<>>
    /\ last = NoOutcome
    /\ prev = NoOutcome
    /\ mirrored = <<>>
    /\ nruns = 0

NextIdentity ==
    \/ \E dry_run \in BOOLEAN, limit \in Limits : SyncBegin(dry_run, FALSE, limit)
    \/ \E i \in 1..MaxReadRepos : IngestRepo(i)
    \/ SyncMerge
    \/ SyncWrite
    \/ SyncFinish

SpecIdentity == InitIdentity /\ [][NextIdentity]_vars

\* ---- backfill: a configured target and fixed source repositories, mirrored
\* by a series of mutating runs with any limits

MaxResumeRuns == 3
MaxResumeLimit == 2

ResumeLimits == {None} \cup {Some(k) : k \in 0..MaxResumeLimit}

InitResume ==
    /\ odb = PoolObjects
    /\ \E first \in {"A", "B"} : \E second \in {"A", "B"} \ {first} :
          config = add_read_repo(add_read_repo(set_this_repo(NoConfig, "T"), first), second)
    /\ \E target \in {t \in TargetStates : IsSome(t.head) /\ t.origin = Some(OriginShorthand)},
          tip \in {Src2, Src4} :
          repos = [InitRepos(target) EXCEPT
                      !["A"].refs["main"] = Some(tip),
                      !["A"].commits = Reachable({tip})]
    /\ pc = "idle"
    /\ run = NoRun
    /\ doneOrder = <<>>
    /\ last = NoOutcome
    /\ prev = NoOutcome
    /\ mirrored = <<>>
    /\ nruns = 0

NextResume ==
    \/ \E allow \in BOOLEAN, limit \in ResumeLimits :
          SyncBeginWithin(MaxResumeRuns, "ok", FALSE, allow, limit)
    \/ \E i \in 1..MaxReadRepos : IngestRepo(i)
    \/ SyncMerge
    \/ SyncWrite
    \/ SyncFinish

SpecResume == InitResume /\ [][NextResume]_vars

\* ------------------------------------------------------------ properties

\* ---- the Marker Scanner on a target whose history holds commits a developer
\* wrote by hand, with message lines of every shape

MaxScanCommits == 1

\* what a line starts with: the marker prefix, the prefix without its space,
\* after a space, and in lower case
ScanPrefixes ==
    {MARKER_PREFIX, "Vanity-Source-Commit:", " " \o MARKER_PREFIX, to_lowercase(MARKER_PREFIX)}
ScanLeftPads == {"", "\t"}
ScanRightPads == {"", " ", "\r"}
\* what follows the prefix, and the marker value it stands for, if any:
\* 40 hexadecimal digits in lower and in upper case, 39 and 41 digits, a
\* letter that is no digit, a space among the digits, and nothing
ScanBodies ==
    {[text |-> OidToString(Src1), marker |-> Some(OidToString(Src1))],
     [text |-> Rep("0", 38) \o "1B", marker |-> Some(OidToString(Src2))],
     [text |-> Rep("0", 37) \o "1a", marker |-> None],
     [text |-> Rep("0", 39) \o "1a", marker |-> None],
     [text |-> Rep("0", 38) \o "1g", marker |-> None],
     [text |-> Rep("0", 20) \o " " \o Rep("0", 17) \o "1a", marker |-> None],
     [text |-> "", marker |-> None]}
ScanLines ==
    {[text |-> p \o l \o b.text \o r,
      markers |-> IF p = MARKER_PREFIX THEN Range(b.marker) ELSE {}] :
        p \in ScanPrefixes, l \in ScanLeftPads, b \in ScanBodies, r \in ScanRightPads}
\* a second line: a marker line, or the text of an unrelated commit
ScanSecondLines ==
    {[text |-> MARKER_PREFIX \o OidToString(Src3), markers |-> {OidToString(Src3)}],
     [text |-> SubjectFix, markers |-> {}]}
\* the messages: one line, or two lines with either line ending between them
ScanMessages ==
    ScanLines \cup
    {[text |-> a.text \o sep \o b.text, markers |-> a.markers \cup b.markers] :
        a \in ScanLines, b \in ScanSecondLines, sep \in {"\n", "\r\n"}}

\* the id of the k-th commit written by hand
ScanOid(k) == 3584 + k
ScanOids == {ScanOid(k) : k \in 1..8}

\* a developer commits to the target with a message of their own
TargetCommit(message) ==
    /\ pc = "idle"
    /\ IsSome(config.this_repo)
    /\ LET id == Unwrap(config.this_repo)
           k == Cardinality(repos[id].commits \cap ScanOids) + 1
           oid == ScanOid(k)
       IN  /\ k <= MaxScanCommits
           /\ odb' = (oid :> [tree |-> "empty", parents |-> HeadOf(id),
                               author |-> Sig(Dev, DevMail, T0 + 300, 0),
                               committer |-> Sig(Dev, DevMail, T0 + 300, 0),
                               message |-> message]) @@ odb
           /\ repos' = [repos EXCEPT ![id].refs["main"] = Some(oid),
                                     ![id].commits = @ \cup {oid}]
    /\ UNCHANGED <<config, pc, run, doneOrder, last, prev, mirrored, nruns>>

InitScan ==
    /\ config = add_read_repo(set_this_repo(NoConfig, "T"), "A")
    /\ \E target \in {t \in TargetStates : t.origin = Some(OriginShorthand)} :
          repos = InitRepos(target)
    /\ odb = PoolObjects
    /\ pc = "idle"
    /\ run = NoRun
    /\ doneOrder = <<>>
    /\ last = NoOutcome
    /\ prev = NoOutcome
    /\ mirrored = <<>>
    /\ nruns = 0

NextScan ==
    \/ \E m \in ScanMessages : TargetCommit(m.text)
    \/ \E io \in {"ok", "scan"}, dry_run \in BOOLEAN :
          SyncBeginWithin(MaxRuns, io, dry_run, FALSE, None)
    \/ \E i \in 1..MaxReadRepos : IngestRepo(i)
    \/ SyncMerge
    \/ SyncWrite
    \/ SyncFinish

SpecScan == InitScan /\ [][NextScan]_vars


\* ---- the Safety Guard on a target whose origin is any spelling of the
\* expected repository

UpperOf == [c \in Chars(LowerLetters) |-> At(UpperLetters, IndexOf(LowerLetters, c))]
RECURSIVE to_uppercase(_)
to_uppercase(s) ==
    IF s = "" THEN ""
    ELSE (IF Head(s) \in Chars(LowerLetters) THEN UpperOf[Head(s)] ELSE Head(s))
         \o to_uppercase(Tail(s))

VanityPath == "TeamDman/Vanity"
\* the spellings: https or ssh shorthand; as written, in lower or in upper
\* case; with or without .git; with or without a trailing slash
SpellingUrl(scheme, git, slash) ==
    scheme \o VanityPath \o (IF git THEN DotGit ELSE "") \o (IF slash THEN "/" ELSE "")
LetterCases(url) == {url, to_lowercase(url), to_uppercase(url)}
OriginSpellings ==
    UNION {{[text |-> letters, scheme |-> scheme, git |-> git, slash |-> slash] :
                letters \in LetterCases(SpellingUrl(scheme, git, slash))} :
           scheme \in {GitHubHttps, GitHubSsh}, git \in BOOLEAN, slash \in BOOLEAN}
SpellingsOf(url) == {sp \in OriginSpellings : sp.text = url}
\* origins of other repositories
OtherOrigins == {OriginOther, GitHubHttp \o VanityPath, GitHubHttps \o VanityPath \o "2"}

InitOrigin ==
    /\ config = add_read_repo(set_this_repo(NoConfig, "T"), "A")
    /\ \E url \in {sp.text : sp \in OriginSpellings} \cup OtherOrigins :
          repos = InitRepos([head |-> Some(Base0), origin |-> Some(url)])
    /\ odb = PoolObjects
    /\ pc = "idle"
    /\ run = NoRun
    /\ doneOrder = <<>>
    /\ last = NoOutcome
    /\ prev = NoOutcome
    /\ mirrored = <<>>
    /\ nruns = 0

NextOrigin ==
    \/ \E dry_run \in BOOLEAN, allow \in BOOLEAN, limit \in Limits :
          SyncBegin(dry_run, allow, limit)
    \/ \E i \in 1..MaxReadRepos : IngestRepo(i)
    \/ SyncMerge
    \/ SyncWrite
    \/ SyncFinish

SpecOrigin == InitOrigin /\ [][NextOrigin]_vars


\* ---- the Message Builder on a source commit with any author time and
\* offset

\* author times and offsets (minutes), with the date each pair stands for in
\* its own offset (local, None when no such offset exists), in UTC (utc) and as plain seconds (raw): offsets
\* up to a day less a minute, a day and more, and the ends of i32
DateCase(seconds, offset_minutes, local, utc, raw) ==
    [seconds |-> seconds, offset_minutes |-> offset_minutes,
     local |-> local, utc |-> utc, raw |-> raw]
DateCases ==
    {DateCase(T0, 0, Some("2023-11-14T22:13:20+00:00"), "2023-11-14T22:13:20+00:00", "1700000000"),
     DateCase(T0, 60, Some("2023-11-14T23:13:20+01:00"), "2023-11-14T22:13:20+00:00", "1700000000"),
     DateCase(T0, -300, Some("2023-11-14T17:13:20-05:00"),
              "2023-11-14T22:13:20+00:00", "1700000000"),
     DateCase(T0, 1439, Some("2023-11-15T22:12:20+23:59"),
              "2023-11-14T22:13:20+00:00", "1700000000"),
     DateCase(T0, -1439, Some("2023-11-13T22:14:20-23:59"),
              "2023-11-14T22:13:20+00:00", "1700000000"),
     DateCase(T0, 1440, None, "2023-11-14T22:13:20+00:00", "1700000000"),
     DateCase(T0, -1440, None, "2023-11-14T22:13:20+00:00", "1700000000"),
     DateCase(T0, I32_MAX, None, "2023-11-14T22:13:20+00:00", "1700000000"),
     DateCase(T0, I32_MIN, None, "2023-11-14T22:13:20+00:00", "1700000000"),
     DateCase(0, 330, Some("1970-01-01T05:30:00+05:30"), "1970-01-01T00:00:00+00:00", "0"),
     DateCase(-1, 0, Some("1969-12-31T23:59:59+00:00"), "1969-12-31T23:59:59+00:00", "-1"),
     DateCase(951782400, -60, Some("2000-02-28T23:00:00-01:00"), "2000-02-29T00:00:00+00:00",
              "951782400"),
     DateCase(I32_MIN, 0, Some("1901-12-13T20:45:52+00:00"), "1901-12-13T20:45:52+00:00",
              "-2147483648"),
     DateCase(I32_MAX, -720, Some("2038-01-18T15:14:07-12:00"), "2038-01-19T03:14:07+00:00",
              "2147483647")}

\* the source commit that carries the date
Dated == Src2

InitDates ==
    /\ config = add_read_repo(set_this_repo(NoConfig, "T"), "A")
    /\ repos = InitRepos([head |-> Some(Base0), origin |-> Some(OriginShorthand)])
    /\ \E c \in DateCases :
          odb = [PoolObjects EXCEPT
                    ![Dated].author = Sig(Dev, DevMail, c.seconds, c.offset_minutes)]
    /\ pc = "idle"
    /\ run = NoRun
    /\ doneOrder = <<>>
    /\ last = NoOutcome
    /\ prev = NoOutcome
    /\ mirrored = <<>>
    /\ nruns = 0

NextDates ==
    \/ \E dry_run \in BOOLEAN, limit \in Limits : SyncBegin(dry_run, FALSE, limit)
    \/ \E i \in 1..MaxReadRepos : IngestRepo(i)
    \/ SyncMerge
    \/ SyncWrite
    \/ SyncFinish

SpecDates == InitDates /\ [][NextDates]_vars


Target == "T"
Finished == pc = "idle" /\ last.result /= "none"
\* the last run had a target and at least one source (it got past the
\* configuration checks)
Configured(o) == IsSome(o.config.this_repo) /\ o.config.read_repos /= <<>>
Created(o) == Unwrap(o.summary).created
Truncated(o) == IsSome(o.limit) /\ Unwrap(o.limit) < o.unmirrored
TipHistory(id) == IF IsSome(HeadOf(id)) THEN Reachable({Unwrap(HeadOf(id))}) ELSE {}

\* C1 (as stated): whenever two runs in sequence both return a summary and see
\* the same set of source commits, the second run's summary has created = 0.
C1_AnyTwoRuns ==
    (prev.result = "ok" /\ last.result = "ok" /\ last.sources = prev.sources)
        => Created(last) = 0

\* C1 (amended): when the first of two runs in sequence is a mutating run that
\* returned a summary and was not cut by its limit, and both runs see the same
\* set of source commits, the second run's summary has created = 0.
C1_Idempotence ==
    (/\ prev.result = "ok" /\ ~prev.dry_run /\ ~Truncated(prev)
     /\ last.result = "ok" /\ last.sources = prev.sources)
        => Created(last) = 0

C1_Witness ==
    /\ prev.result = "ok" /\ ~prev.dry_run /\ ~Truncated(prev) /\ Created(prev) >= 3
    /\ last.result = "ok" /\ last.sources = prev.sources /\ Created(last) = 0

\* C2: a run's pending commits are all outside the marker set it scanned, and
\* after any sequence of runs no hash is the marker of two commits of the
\* target's tip history.
C2_NoDoubleMirror ==
    /\ pc = "write" =>
          \A i \in DOMAIN run.pending : run.pending[i].sha \notin run.existing_markers
    /\ pc = "idle" =>
          LET markers == [o \in TipHistory(Target) |-> MessageMarkers(odb[o].message)]
          IN  \A a, b \in DOMAIN markers : a /= b => markers[a] \cap markers[b] = {}

C2_Witness ==
    /\ Finished /\ nruns = 2 /\ ~last.dry_run /\ last.result = "ok"
    /\ prev.result = "ok" /\ ~prev.dry_run /\ prev.written >= 1
    /\ last.sources /= prev.sources /\ last.written >= 1
    /\ Len(config.read_repos) = 2

\* C3: every commit the Commit Writer created carries the message built for
\* its source commit and contributes that commit's hash and nothing else to
\* the marker scan; a scan of the target's tip history contains the hash, and
\* so does the marker set of every later run.
C3_MarkerRoundTrip ==
    /\ pc = "idle" =>
          LET scan == existing_mirrored_shas(Target)
          IN  \A i \in DOMAIN mirrored :
                /\ odb[mirrored[i].oid].message = build_commit_message(mirrored[i].source)
                /\ MessageMarkers(odb[mirrored[i].oid].message) = {mirrored[i].source.sha}
                /\ mirrored[i].source.sha \in scan
    /\ run.active =>
          \A i \in 1..run.mirrored0 : mirrored[i].source.sha \in run.existing_markers

C3_Witness ==
    pc = "idle" /\ \E i \in DOMAIN mirrored :
        /\ mirrored[i].source.sha = OidToString(Src3)
        /\ starts_with(mirrored[i].source.subject, MARKER_PREFIX)
        /\ existing_mirrored_shas(Target) = {mirrored[k].source.sha : k \in DOMAIN mirrored}
        /\ Len(mirrored) >= 3

\* C4: a step of a sync run moves the target's tip only to a new commit whose
\* only parent is the tip before the step and whose tree is that tip's tree,
\* and changes no existing commit; after a run the history from before the
\* run is intact below the new tip, and the tip history has grown by the
\* number of commits the run created.
C4_WriteStep ==
    (pc = "write" /\ HeadOf(Target)' /= HeadOf(Target)) =>
        /\ IsSome(HeadOf(Target)) /\ IsSome(HeadOf(Target)')
        /\ Unwrap(HeadOf(Target)') \notin repos[Target].commits
        /\ odb'[Unwrap(HeadOf(Target)')].parents = <<Unwrap(HeadOf(Target))>>
        /\ odb'[Unwrap(HeadOf(Target)')].tree = odb[Unwrap(HeadOf(Target))].tree
        /\ \A o \in DOMAIN odb : odb'[o] = odb[o]
        /\ repos'[Target].commits = repos[Target].commits \cup {Unwrap(HeadOf(Target)')}

C4_AfterRun ==
    (Finished /\ Configured(last)) =>
        LET now == Snapshot(Target)
            chain == Chain(odb, HeadOf(Target))
        IN  /\ \A o \in DOMAIN last.history0 : o \in DOMAIN now /\ now[o] = last.history0[o]
            /\ Cardinality(DOMAIN now) = Cardinality(DOMAIN last.history0) + last.written
            /\ Len(chain) >= last.written
            /\ SubSeq(chain, last.written + 1, Len(chain)) = Chain(odb, last.head0)

C4_AppendOnly == [][C4_WriteStep]_vars /\ []C4_AfterRun

C4_Witness ==
    /\ Finished /\ last.result = "ok" /\ last.written >= 2
    /\ Len(Chain(odb, HeadOf(Target))) = Len(Chain(odb, last.head0)) + last.written

\* C5: while a preview run is in progress and after it has returned, the
\* target's tip and the commits of its history are what they were at its start.
C5_PreviewWritesNothing ==
    /\ (run.active /\ run.dry_run) =>
          HeadOf(Target) = run.head0 /\ Snapshot(Target) = run.history0
    /\ (Finished /\ Configured(last) /\ last.dry_run) =>
          /\ HeadOf(Target) = last.head0 /\ Snapshot(Target) = last.history0
          /\ last.written = 0

C5_Witness ==
    /\ Finished /\ last.result = "ok" /\ last.dry_run /\ last.limit = None
    /\ last.unmirrored >= 3 /\ HeadOf(Target) = last.head0

\* C6 (as stated): the summary's created count is zero for a preview run and
\* is the number of commits appended to the target for a mutating run.
C6_CreatedIsActual ==
    last.result = "ok" =>
        /\ last.dry_run => Created(last) = 0
        /\ ~last.dry_run => Created(last) = last.written

\* C6 (amended): the summary's created count is the length of the pending
\* list (the unmirrored source commits, cut at the limit); a mutating run
\* appended exactly that many commits, a preview run appended none.
C6_CreatedIsPending ==
    last.result = "ok" =>
        /\ Created(last) = IF Truncated(last) THEN Unwrap(last.limit) ELSE last.unmirrored
        /\ ~last.dry_run => last.written = Created(last)
        /\ last.dry_run => last.written = 0

C6_Witness ==
    /\ prev.result = "ok" /\ prev.dry_run /\ Created(prev) >= 3 /\ prev.written = 0
    /\ last.result = "ok" /\ ~last.dry_run /\ Created(last) >= 3 /\ last.written = Created(last)

OriginMismatches(id) ==
    /\ IsSome(repos[id].origin)
    /\ normalize_remote_url(Unwrap(repos[id].origin)) /= normalize_remote_url(EXPECTED_VANITY_REMOTE)
Unchanged(o) == HeadOf(Target) = o.head0 /\ Snapshot(Target) = o.history0

\* C7: a mutating run without the bypass flag against a target whose origin
\* does not normalize to the expected url fails with the origin-mismatch
\* error and creates nothing; a mutating run with the bypass flag never fails
\* in the guard.
C7_GuardMismatch ==
    /\ (/\ last.result /= "none" /\ Configured(last) /\ ~last.dry_run
        /\ ~last.allow_non_vanity_target /\ OriginMismatches(Target))
          => /\ last.result = "err" /\ last.error = "OriginMismatch"
             /\ last.written = 0
             /\ pc = "idle" => Unchanged(last)
    /\ (last.result /= "none" /\ ~last.dry_run /\ last.allow_non_vanity_target)
          => (last.result = "err" => last.error \notin {"OriginMismatch", "MissingOrigin"})

C7_Witness ==
    /\ OriginMismatches(Target)
    /\ prev.result = "err" /\ prev.error = "OriginMismatch" /\ ~prev.allow_non_vanity_target
    /\ last.result = "ok" /\ ~last.dry_run /\ last.allow_non_vanity_target
    /\ last.written >= 1

\* C8 (as stated): every mutating run against a target without an origin
\* fails with the missing-origin error and creates nothing, with or without
\* the bypass flag.
C8_MissingOriginAlways ==
    (/\ last.result /= "none" /\ Configured(last) /\ ~last.dry_run
     /\ ~IsSome(repos[Target].origin))
        => last.result = "err" /\ last.error = "MissingOrigin" /\ last.written = 0

\* C8 (amended): a mutating run without the bypass flag against a target
\* without an origin fails with the missing-origin error and creates nothing;
\* with the bypass flag the guard returns before it reads the origin, and the
\* run does not fail for the missing origin.
C8_MissingOrigin ==
    /\ (/\ last.result /= "none" /\ Configured(last) /\ ~last.dry_run
        /\ ~last.allow_non_vanity_target /\ ~IsSome(repos[Target].origin))
          => /\ last.result = "err" /\ last.error = "MissingOrigin"
             /\ last.written = 0
             /\ pc = "idle" => Unchanged(last)
    /\ (last.result /= "none" /\ last.allow_non_vanity_target)
          => last.error /= "MissingOrigin"

C8_Witness ==
    /\ ~IsSome(repos[Target].origin)
    /\ prev.result = "err" /\ prev.error = "MissingOrigin" /\ ~prev.allow_non_vanity_target
    /\ last.result = "ok" /\ ~last.dry_run /\ last.allow_non_vanity_target
    /\ last.written >= 1

\* C9 (as stated): no step of a sync run changes the references or the
\* commits of a repository of the configured source list.
C9_SourcesUntouched ==
    [][run.active =>
          \A id \in Range(run.config.read_repos) :
              repos'[id].refs = repos[id].refs /\ repos'[id].commits = repos[id].commits]_vars

\* C10: once the ingestions are merged, every hash some source repository
\* returned is in the merged list exactly once, with the hint of the first
\* repository of read_repos that has it, whatever the order of completion.
C10_DedupFirstListed ==
    pc = "write" =>
        LET results == [i \in DOMAIN run.per_repo_results |-> Unwrap(run.per_repo_results[i])]
            shasOf(i) == {results[i][k].sha : k \in DOMAIN results[i]}
            merged == run.source_commits
        IN  /\ {merged[k].sha : k \in DOMAIN merged} = UNION {shasOf(i) : i \in DOMAIN results}
            /\ \A h \in UNION {shasOf(i) : i \in DOMAIN results} :
                 LET first == CHOOSE i \in DOMAIN results :
                                  h \in shasOf(i) /\ \A j \in 1..(i - 1) : h \notin shasOf(j)
                     at == {k \in DOMAIN merged : merged[k].sha = h}
                 IN  /\ Cardinality(at) = 1
                     /\ \A k \in at : merged[k].source_repo_hint = results[first][1].source_repo_hint

C10_Witness ==
    /\ pc = "write" /\ doneOrder = <<2, 1>> /\ run.config.read_repos = <<"A", "B">>
    /\ \E k \in DOMAIN run.source_commits :
          /\ run.source_commits[k].sha = OidToString(Src1)
          /\ run.source_commits[k].source_repo_hint = OriginA
    /\ \E k \in DOMAIN Unwrap(run.per_repo_results[2]) :
          /\ Unwrap(run.per_repo_results[2])[k].sha = OidToString(Src1)
          /\ Unwrap(run.per_repo_results[2])[k].source_repo_hint = PathOf("B")

\* A is before B in the processing order: earlier author time, or the same
\* author time and the smaller hash
Before(a, b) ==
    \/ a.author_date_seconds < b.author_date_seconds
    \/ a.author_date_seconds = b.author_date_seconds /\ StrLess(a.sha, b.sha)

\* C11: while a run writes, its pending list is strictly ascending in (author
\* time, hash) - a total order, so the list is fixed by the set of its
\* commits - and the commits the run has written so far are the first
\* entries of that list, in that order.
C11_ProcessingOrder ==
    pc = "write" =>
        /\ \A i, j \in DOMAIN run.pending :
              i < j => Before(run.pending[i], run.pending[j]) /\ ~Before(run.pending[j], run.pending[i])
        /\ \A i, j \in DOMAIN run.source_commits :
              i < j => Before(run.source_commits[i], run.source_commits[j])
        /\ Len(mirrored) = run.mirrored0 + run.written
        /\ run.written <= Len(run.pending)
        /\ \A k \in 1..run.written : mirrored[run.mirrored0 + k].source = run.pending[k]
        /\ ~run.dry_run => run.written = run.next - 1

C11_Witness ==
    /\ pc = "write" /\ ~run.dry_run /\ run.written = 3 /\ Len(run.pending) = 3
    /\ run.config.read_repos = <<"A", "B">>
    /\ run.pending[1].sha = OidToString(Src3)
    /\ run.pending[2].sha = OidToString(Src1)
    /\ run.pending[3].sha = OidToString(Src2)
    /\ run.pending[2].author_date_seconds = run.pending[3].author_date_seconds

\* the source hashes of the commits the Commit Writer created, oldest first
MirroredShas == [i \in DOMAIN mirrored |-> mirrored[i].source.sha]
Shas(commits) == [i \in DOMAIN commits |-> commits[i].sha]

\* C12: after a mutating run whose limit k is below the number of unmirrored
\* source commits, the run created exactly k commits, for the k first
\* unmirrored commits in (author time, hash) order; no other unmirrored commit
\* has a marker in the target, nor in the marker set the next run scans.
C12_LimitSemantics ==
    (last.result = "ok" /\ ~last.dry_run /\ Truncated(last)) =>
        LET k == Unwrap(last.limit)
            rest == {last.queue[i].sha : i \in (k + 1)..Len(last.queue)}
        IN  /\ last.written = k /\ Created(last) = k
            /\ \A i, j \in DOMAIN last.queue : i < j => Before(last.queue[i], last.queue[j])
            /\ pc = "idle" =>
                  /\ Len(mirrored) >= k
                  /\ SubSeq(MirroredShas, Len(mirrored) - k + 1, Len(mirrored))
                        = SubSeq(Shas(last.queue), 1, k)
                  /\ rest \cap existing_mirrored_shas(Target) = {}
            /\ run.active => rest \cap run.existing_markers = {}

C12_Witness ==
    /\ last.result = "ok" /\ ~last.dry_run /\ last.limit = Some(2) /\ Len(last.queue) = 4
    /\ last.written = 2
    /\ pc = "write" /\ Len(run.pending) = 2
    /\ Shas(run.pending) = SubSeq(Shas(last.queue), 3, 4)

\* C13: after a successful mutating run without a limit, every source hash of
\* the run is in the marker set of the target's tip history; the summary
\* counts the distinct source hashes, the markers scanned at the start and, as
\* created, the source hashes that were not among those markers; and the
\* commits the run appended sit on the original tip, oldest author time
\* lowest.
C13_FullSync ==
    (last.result = "ok" /\ ~last.dry_run /\ last.limit = None) =>
        LET summary == Unwrap(last.summary) IN
        /\ summary.total_source_commits = Cardinality(last.sources)
        /\ summary.existing_markers = Cardinality(last.existing_markers)
        /\ summary.created = Cardinality(last.sources \ last.existing_markers)
        /\ last.written = summary.created
        /\ pc = "idle" =>
              LET chain == Chain(odb, HeadOf(Target)) IN
              /\ last.sources \subseteq existing_mirrored_shas(Target)
              /\ Len(chain) = Len(Chain(odb, last.head0)) + summary.created
              /\ SubSeq(chain, summary.created + 1, Len(chain)) = Chain(odb, last.head0)
              /\ \A i \in 1..(summary.created - 1) :
                    odb[chain[i]].author.seconds >= odb[chain[i + 1]].author.seconds

C13_Witness ==
    /\ Finished /\ last.result = "ok" /\ ~last.dry_run /\ last.limit = None
    /\ Unwrap(last.summary) = [total_source_commits |-> 4, existing_markers |-> 0, created |-> 4]
    /\ Len(Chain(odb, last.head0)) = 1
    /\ Len(Chain(odb, HeadOf(Target))) = 5
    /\ Len(last.config.read_repos) = 2

\* the errors sync returns before the first write
FailFastErrors ==
    {"NotConfigured", "NoReadRepos", "OpenTarget", "MissingOrigin", "OriginMismatch",
     "MarkerScan", "Ingest"}

C14_ErrorStep ==
    (last' /= last /\ last'.result = "err" /\ last'.error \in FailFastErrors)
        => UNCHANGED <<repos, odb, mirrored>>
C14_AfterError ==
    /\ (last.result = "err" /\ last.error \in FailFastErrors) =>
          /\ last.summary = None
          /\ last.written = 0
          /\ (pc = "idle" /\ Configured(last)) => Unchanged(last)
    /\ last.result = "ok" =>
          /\ Configured(last) /\ IsSome(last.summary)
          /\ last.ingested = Len(last.config.read_repos)
    /\ (last.result /= "none" /\ ~IsSome(last.config.this_repo)) => last.error = "NotConfigured"
    /\ (last.result /= "none" /\ IsSome(last.config.this_repo) /\ last.config.read_repos = <<>>)
          => last.error = "NoReadRepos"
    /\ pc = "write" => \A i \in DOMAIN run.per_repo_results : IsSome(run.per_repo_results[i])

\* C14: a run that meets a missing target, an empty source list, a target
\* that cannot be opened, a failing guard, a failing marker scan or a failing
\* ingestion (whatever the other ingestions returned) ends with an error and no
\* summary; no step of it changes a repository, and the target's tip and
\* history are what they were when it started. A run returns a summary only
\* when every source repository was ingested.
C14_FailFast == [][C14_ErrorStep]_vars /\ []C14_AfterError

C14_Witness ==
    /\ Finished /\ last.result = "err" /\ last.error = "Ingest" /\ ~last.dry_run
    /\ Len(last.config.read_repos) = 2 /\ last.ingested = 1
    /\ Unchanged(last)
    /\ prev.result = "err" /\ prev.error = "MarkerScan"

\* C15: a preview run against a configured target whose origin is missing or
\* does not match the expected url returns a summary, with the bypass flag
\* and without it; no preview run ends with an error of the Safety Guard.
C15_PreviewSkipsGuard ==
    /\ (/\ last.result /= "none" /\ Configured(last) /\ last.dry_run
        /\ (~IsSome(repos[Target].origin) \/ OriginMismatches(Target)))
          => last.result = "ok" /\ IsSome(last.summary)
    /\ (last.result /= "none" /\ last.dry_run)
          => last.error \notin {"MissingOrigin", "OriginMismatch"}

C15_Witness ==
    /\ OriginMismatches(Target)
    /\ prev.result = "ok" /\ prev.dry_run /\ ~prev.allow_non_vanity_target /\ Created(prev) >= 1
    /\ last.result = "ok" /\ last.dry_run /\ last.allow_non_vanity_target

\* C16: on a target without a current commit create_empty_commit returns the
\* no-base-commit error for every pending commit; a mutating run that reaches
\* the writer with a pending commit on such a target ends with that error,
\* has written nothing and leaves the target without commits. The error is
\* returned in no other case.
C16_EmptyTargetRejected ==
    /\ (pc = "write" /\ ~IsSome(HeadOf(run.this_repo))) =>
          \A i \in DOMAIN run.pending :
              create_empty_commit(run.this_repo, build_commit_message(run.pending[i]),
                                  run.pending[i]) = None
    /\ (/\ last.result /= "none" /\ Configured(last) /\ ~last.dry_run
        /\ last.head0 = None /\ last.queue /= <<>> /\ last.limit /= Some(0))
          => /\ last.result = "err" /\ last.error = "NoBaseCommit"
             /\ last.written = 0
             /\ pc = "idle" => HeadOf(Target) = None /\ repos[Target].commits = {}
    /\ (last.result = "err" /\ last.error = "NoBaseCommit")
          => last.head0 = None /\ ~last.dry_run /\ last.queue /= <<>>

C16_Witness ==
    /\ Finished /\ last.result = "err" /\ last.error = "NoBaseCommit"
    /\ Len(last.queue) >= 3 /\ last.limit = None
    /\ HeadOf(Target) = None /\ repos[Target].commits = {}

\* C17: every commit the Commit Writer created has, as author time and as
\* committer time, the author seconds and the author offset of the source
\* commit it mirrors, as they stand in the source commit object.
C17_TimestampFidelity ==
    \A i \in DOMAIN mirrored :
        LET made == odb[mirrored[i].oid]
            source == mirrored[i].source
        IN  /\ made.author.seconds = source.author_date_seconds
            /\ made.author.offset_minutes = source.author_offset_minutes
            /\ made.committer.seconds = source.author_date_seconds
            /\ made.committer.offset_minutes = source.author_offset_minutes
            /\ \E o \in DOMAIN odb :
                  /\ OidToString(o) = source.sha
                  /\ made.author.seconds = odb[o].author.seconds
                  /\ made.author.offset_minutes = odb[o].author.offset_minutes
                  /\ made.committer.seconds = odb[o].author.seconds
                  /\ made.committer.offset_minutes = odb[o].author.offset_minutes

C17_Witness ==
    \E i, j \in DOMAIN mirrored :
        /\ mirrored[i].source.sha = OidToString(Src2)
        /\ odb[Src2].committer.seconds /= odb[Src2].author.seconds
        /\ odb[mirrored[i].oid].committer.seconds = odb[Src2].author.seconds
        /\ odb[mirrored[i].oid].committer.offset_minutes = 60
        /\ mirrored[j].source.sha = OidToString(Src3)
        /\ odb[mirrored[j].oid].author.offset_minutes = -300

\* a configuration value that is absent or blank
Unusable(field) == ~IsSome(field) \/ trim(Unwrap(field)) = ""

\* C18 (as stated): when user.name or user.email of the target is absent or
\* blank, every created commit has the default name and the default email;
\* author and committer identity are the same.
C18_WholeDefault ==
    \A i \in DOMAIN mirrored :
        LET made == odb[mirrored[i].oid] IN
        /\ (Unusable(repos[Target].user_name) \/ Unusable(repos[Target].user_email))
              => made.author.name = "Vanity" /\ made.author.email = "vanity@example.invalid"
        /\ made.committer.name = made.author.name
        /\ made.committer.email = made.author.email

\* C18 (amended): the name and the email of a created commit fall back
\* separately: the name is "Vanity" when user.name is absent or blank and the
\* configured user.name otherwise; the email is "vanity@example.invalid" when
\* user.email is absent or blank and the configured user.email otherwise;
\* author and committer identity are the same.
C18_FieldwiseDefault ==
    \A i \in DOMAIN mirrored :
        LET made == odb[mirrored[i].oid] IN
        /\ made.author.name = IF Unusable(repos[Target].user_name) THEN "Vanity"
                              ELSE Unwrap(repos[Target].user_name)
        /\ made.author.email = IF Unusable(repos[Target].user_email) THEN "vanity@example.invalid"
                               ELSE Unwrap(repos[Target].user_email)
        /\ made.committer.name = made.author.name
        /\ made.committer.email = made.author.email

C18_Witness ==
    /\ repos[Target].user_name = Some(Dev) /\ repos[Target].user_email = Some(" ")
    /\ Len(mirrored) >= 2
    /\ odb[mirrored[1].oid].author.name = Dev
    /\ odb[mirrored[1].oid].author.email = "vanity@example.invalid"
    /\ odb[mirrored[1].oid].committer = odb[mirrored[1].oid].author

\* what one mutating run without a limit mirrors, in order, on the target as
\* it was before the first commit was mirrored
FullRunOrder ==
    LET written == {mirrored[i].oid : i \in DOMAIN mirrored}
        markers0 == UNION {MessageMarkers(odb[o].message) : o \in TipHistory(Target) \ written}
        results == [i \in DOMAIN config.read_repos |->
                        gather_source_commits_for_repo(config.read_repos[i])]
    IN  Shas(Pending(gather_source_commits(results), markers0, None))

\* C19: with fixed sources and any series of mutating runs with any limits,
\* the source hashes mirrored so far are at every point the first entries of
\* the order a single run without a limit mirrors, the target's tip history
\* is the original history with exactly these commits on top in that order,
\* and once a run finished with nothing left pending the two sequences are
\* equal.
C19_Resumable ==
    LET full == FullRunOrder
        chain == Chain(odb, HeadOf(Target))
        n == Len(mirrored)
    IN  /\ n <= Len(full)
        /\ MirroredShas = SubSeq(full, 1, n)
        /\ Len(chain) >= n
        /\ \A k \in 1..n : chain[n - k + 1] = mirrored[k].oid
        /\ \A k \in 1..n : MessageMarkers(odb[mirrored[k].oid].message) = {full[k]}
        /\ (pc = "idle" /\ last.result = "ok" /\ ~Truncated(last)) => MirroredShas = full

C19_Witness ==
    /\ Finished /\ nruns = 3 /\ Len(mirrored) = 4 /\ MirroredShas = FullRunOrder
    /\ prev.result = "ok" /\ prev.limit = Some(2) /\ prev.written = 2 /\ Truncated(prev)
    /\ last.result = "ok" /\ last.limit = Some(1) /\ last.written = 1
    /\ ~Truncated(last)

\* the length of a finished run's pending list
PendingLen(o) == IF Truncated(o) THEN Unwrap(o.limit) ELSE Len(o.queue)

\* C20: a run in which the Commit Writer fails on the j-th pending commit
\* returns an error and no summary, has appended exactly the j-1 commits
\* before it and attempts no later one; nothing of the run is kept but the
\* target's history. A following successful mutating run without a limit, on
\* the same sources, finds those j-1 hashes in the marker set and creates
\* exactly the commits the failed run left unmirrored, in order, so that no
\* source hash is mirrored twice.
C20_AbortWhileWriting ==
    /\ (last.result = "err" /\ last.error = "CommitCreation") =>
          /\ last.summary = None /\ ~last.dry_run
          /\ last.written < PendingLen(last)
          /\ pc = "idle" =>
                /\ run = NoRun
                /\ Len(Chain(odb, HeadOf(Target))) = Len(Chain(odb, last.head0)) + last.written
                /\ SubSeq(MirroredShas, Len(mirrored) - last.written + 1, Len(mirrored))
                      = SubSeq(Shas(last.queue), 1, last.written)
          /\ run.active =>
                run.existing_markers =
                    last.existing_markers \cup {last.queue[i].sha : i \in 1..last.written}
    /\ (/\ prev.result = "err" /\ prev.error = "CommitCreation"
        /\ last.result = "ok" /\ ~last.dry_run /\ last.limit = None
        /\ last.sources = prev.sources) =>
          /\ Shas(last.queue) = SubSeq(Shas(prev.queue), prev.written + 1, Len(prev.queue))
          /\ last.written = Len(prev.queue) - prev.written
          /\ Created(last) = last.written
          /\ \A i, k \in DOMAIN mirrored : i /= k => mirrored[i].source.sha /= mirrored[k].source.sha

C20_Witness ==
    /\ Finished
    /\ prev.result = "err" /\ prev.error = "CommitCreation" /\ prev.limit = None
    /\ prev.written = 2 /\ Len(prev.queue) = 3
    /\ last.result = "ok" /\ ~last.dry_run /\ last.limit = None /\ last.written = 1
    /\ Len(mirrored) = 3


\* the Safety Guard lets the run described by r or o write to its target
GuardPassed(r) ==
    r.allow_non_vanity_target \/
        (/\ IsSome(repos[Target].origin)
         /\ normalize_remote_url(Unwrap(repos[Target].origin))
               = normalize_remote_url(EXPECTED_VANITY_REMOTE))

\* the stage a run is in: 0 no run, 1 ingestion, 2 the loop over pending
Stage(p) == CASE p = "idle" -> 0 [] p = "ingest" -> 1 [] p = "write" -> 2

C21_Step ==
    \* a run moves forward through its stages, one at a time, or ends
    /\ Stage(pc') \in {0, Stage(pc), Stage(pc) + 1}
    \* the marker set is built when the run starts and from the target as it
    \* then is, after the guard if the run is mutating; it never changes later
    /\ (pc = "idle" /\ pc' = "ingest") =>
          /\ run'.existing_markers = existing_mirrored_shas(Target)
          /\ ~run'.dry_run => GuardPassed(run')
          /\ \A i \in DOMAIN run'.per_repo_results : run'.per_repo_results[i] = None
          /\ run'.pending = <<>>
    /\ (pc /= "idle" /\ pc' /= "idle") =>
          /\ run'.existing_markers = run.existing_markers
          /\ run'.dry_run = run.dry_run
    \* ingestion runs once for every source repository, in any order
    /\ (pc = "ingest" /\ pc' = "ingest") =>
          \E i \in DOMAIN run.per_repo_results :
              /\ run.per_repo_results[i] = None /\ run'.per_repo_results[i] /= None
              /\ \A k \in DOMAIN run.per_repo_results \ {i} :
                    run'.per_repo_results[k] = run.per_repo_results[k]
    \* merge and the pending list come after the last ingestion, and the
    \* pending list is fixed before the first write
    /\ (pc = "ingest" /\ pc' = "write") =>
          /\ \A i \in DOMAIN run.per_repo_results : IsSome(run.per_repo_results[i])
          /\ run'.source_commits = gather_source_commits(Oks(run.per_repo_results))
          /\ run'.pending = Pending(run'.source_commits, run.existing_markers, run.limit)
          /\ run'.next = 1
    /\ (pc = "write" /\ pc' = "write") =>
          /\ run'.pending = run.pending
          /\ run'.next = run.next + 1
    \* nothing is written outside the loop over pending of a mutating run
    \* whose guard has passed and whose ingestions have all succeeded; a write
    \* is one commit, for the next pending commit, on the tip as it is
    /\ (odb' /= odb \/ repos' /= repos \/ mirrored' /= mirrored) =>
          /\ pc = "write" /\ pc' = "write"
          /\ ~run.dry_run /\ GuardPassed(run)
          /\ \A i \in DOMAIN run.per_repo_results : IsSome(run.per_repo_results[i])
          /\ Len(mirrored') = Len(mirrored) + 1
          /\ LET made == mirrored'[Len(mirrored')]
             IN  /\ made.source = run.pending[run.next]
                 /\ odb'[made.oid].message = build_commit_message(made.source)
                 /\ run.pending[run.next].sha \notin run.existing_markers
                 /\ IsSome(HeadOf(Target))
                 /\ odb'[made.oid].parents = <<Unwrap(HeadOf(Target))>>
                 /\ repos'[Target].refs["main"] = Some(made.oid)

\* the stage in which a failed run stopped: the stages before it had passed
C21_ErrorStage ==
    (pc = "idle" /\ last.result = "err" /\ Configured(last)) =>
        /\ last.error \in {"MarkerScan", "Ingest", "NoBaseCommit", "CommitCreation"} =>
              (~last.dry_run => GuardPassed(last))
        /\ last.error \in {"OpenTarget", "MissingOrigin", "OriginMismatch", "MarkerScan"} =>
              (last.ingested = 0 /\ last.existing_markers = {} /\ last.written = 0)
        /\ last.error = "Ingest" => (last.queue = <<>> /\ last.written = 0)
        /\ last.error \in {"NoBaseCommit", "CommitCreation"} =>
              last.ingested = Len(last.config.read_repos)

\* C21: within one run the stages execute in the order open target, Safety
\* Guard (if mutating), Marker Scanner, ingestion of every source repository,
\* merge and dedup, pending list, then for each pending commit the Message
\* Builder followed by the Commit Writer. No commit is written before the
\* guard has passed and every ingestion has completed, the marker set is built
\* once per run before any write, and each write takes the tip left by the
\* one before it as its parent.
C21_StageOrder == [][C21_Step]_vars /\ []C21_ErrorStage

C21_Witness ==
    /\ pc = "write" /\ ~run.dry_run /\ run.written = 2 /\ Len(run.pending) >= 3
    /\ Len(run.config.read_repos) = 2
    /\ odb[mirrored[2].oid].parents = <<mirrored[1].oid>>
    /\ HeadOf(Target) = Some(mirrored[2].oid)


\* the marker values the message of commit o of the target stands for: the
\* source hash for a commit of the Commit Writer, none for the initial commit,
\* the values of its lines for a commit written by hand
ExpectedOf(o, message) ==
    IF \E k \in DOMAIN mirrored : mirrored[k].oid = o
    THEN {mirrored[k].source.sha : k \in {n \in DOMAIN mirrored : mirrored[n].oid = o}}
    ELSE UNION {m.markers : m \in {x \in ScanMessages : x.text = message}}
ExpectedMarkers(history) == UNION {ExpectedOf(o, history[o].message) : o \in DOMAIN history}
KnownMessage(o, message) ==
    \/ \E k \in DOMAIN mirrored : mirrored[k].oid = o
    \/ o = Base0 /\ message = InitialMessage
    \/ \E m \in ScanMessages : m.text = message

\* C22: a message line of the target's history contributes a value to the
\* marker set iff it starts with the literal prefix "Vanity-Source-Commit: "
\* and the rest of the line, trimmed and in lower case, is exactly 40
\* hexadecimal characters; that value is the one contributed. Every other
\* line is ignored without error, and a target without a branch tip gives the
\* empty set and no failure.
C22_MarkerAcceptance ==
    /\ run.active =>
          /\ \A o \in DOMAIN run.history0 : KnownMessage(o, run.history0[o].message)
          /\ run.existing_markers = ExpectedMarkers(run.history0)
          /\ ~IsSome(run.head0) => run.existing_markers = {}
    /\ (pc = "idle" /\ last.result = "err" /\ last.error = "MarkerScan") =>
          IsSome(last.head0)

C22_Witness ==
    /\ pc = "ingest" /\ nruns = 2 /\ Len(mirrored) = 1
    /\ HeadOf(Target) = Some(mirrored[1].oid)
    /\ \E o \in DOMAIN run.history0 :
          /\ o \in ScanOids
          /\ run.history0[o].message =
                MARKER_PREFIX \o "\t" \o Rep("0", 38) \o "1B" \o "\r\r\n" \o SubjectFix
    /\ run.existing_markers = {OidToString(Src1), OidToString(Src2)}


\* the normal form of the expected repository's url
CanonicalVanity == "https://github.com/teamdman/vanity"
TargetOrigin == Unwrap(repos[Target].origin)
GuardRan(o) == Configured(o) /\ ~o.dry_run /\ ~o.allow_non_vanity_target
GuardErrors == {"OriginMismatch", "MissingOrigin"}

\* C23 (as stated): every spelling of the expected repository (https or ssh
\* shorthand, any letter case, with or without .git, with or without a
\* trailing slash, in any combination) normalizes to the normal form of the
\* expected url and passes the guard, and normalizing twice gives what
\* normalizing once gives.
C23_AnySpelling ==
    SpellingsOf(TargetOrigin) /= {} =>
        /\ normalize_remote_url(TargetOrigin) = CanonicalVanity
        /\ normalize_remote_url(TargetOrigin) = normalize_remote_url(EXPECTED_VANITY_REMOTE)
        /\ normalize_remote_url(normalize_remote_url(TargetOrigin))
              = normalize_remote_url(TargetOrigin)
        /\ (Finished /\ GuardRan(last)) => last.error \notin GuardErrors

\* C23 (amended): the expected url normalizes to its lower-case form. A
\* spelling of the expected repository in which no slash follows .git
\* normalizes to the same string, passes the guard, and normalizing it twice
\* gives what normalizing once gives. A spelling that ends in .git/ keeps its
\* .git: it normalizes to another string, the guard rejects it with the
\* origin-mismatch error and nothing is written, and normalizing it a second
\* time gives the expected normal form. Origins of other repositories are
\* rejected.
C23_Normalization ==
    /\ normalize_remote_url(EXPECTED_VANITY_REMOTE) = CanonicalVanity
    /\ \A sp \in SpellingsOf(TargetOrigin) :
          LET once == normalize_remote_url(sp.text)
              twice == normalize_remote_url(once)
          IN  IF sp.git /\ sp.slash
              THEN /\ once = CanonicalVanity \o DotGit
                   /\ twice = CanonicalVanity
                   /\ (Finished /\ GuardRan(last)) =>
                         (last.error = "OriginMismatch" /\ Unchanged(last))
              ELSE /\ once = CanonicalVanity
                   /\ twice = once
                   /\ (Finished /\ GuardRan(last)) => last.error \notin GuardErrors
    /\ (TargetOrigin \in OtherOrigins /\ Finished /\ GuardRan(last)) =>
          last.error = "OriginMismatch"

C23_Witness ==
    /\ Finished /\ GuardRan(last) /\ last.result = "ok" /\ last.written = 2
    /\ TargetOrigin = "GIT@GITHUB.COM:TEAMDMAN/VANITY.GIT"
    /\ Len(mirrored) = 2


\* the values of the Source-Date lines of a message
SourceDates(message) ==
    LET ls == lines(message)
    IN  {Unwrap(strip_prefix(ls[i], SourceDateField)) :
            i \in {k \in DOMAIN ls : IsSome(strip_prefix(ls[k], SourceDateField))}}
\* the mirror commits of the dated source commit
DatedMirrors == {k \in DOMAIN mirrored : mirrored[k].source.sha = OidToString(Dated)}
DatedCases ==
    {c \in DateCases : /\ c.seconds = odb[Dated].author.seconds
                        /\ c.offset_minutes = odb[Dated].author.offset_minutes}

\* C24 (as stated): the Message Builder returns a Source-Date value for every
\* (seconds, offset_minutes) pair; it is the RFC-3339 timestamp in the
\* commit's own offset when the offset is constructible, and the raw integer
\* seconds when the offset is out of range.
C24_RawSecondsFallback ==
    \A k \in DatedMirrors : \A c \in DatedCases :
        SourceDates(odb[mirrored[k].oid].message)
            = {IF IsSome(c.local) THEN Unwrap(c.local) ELSE c.raw}

\* C24 (amended): the Message Builder returns exactly one Source-Date value
\* for every (seconds, offset_minutes) pair whose seconds are a date chrono
\* can hold: the RFC-3339 timestamp in the commit's own offset when the
\* offset is less than a day, and the RFC-3339 timestamp in UTC (+00:00),
\* never the raw integer seconds, when the offset is out of range. The run
\* does not fail for any pair.
C24_SourceDate ==
    /\ DatedCases /= {}
    /\ \A k \in DatedMirrors : \A c \in DatedCases :
          LET dates == SourceDates(odb[mirrored[k].oid].message)
          IN  /\ dates = {IF IsSome(c.local) THEN Unwrap(c.local) ELSE c.utc}
              /\ c.raw \notin dates
              /\ IsSome(c.local) <=>
                    (-1440 < c.offset_minutes /\ c.offset_minutes < 1440)
    /\ Finished => last.result = "ok"

C24_Witness ==
    /\ Finished /\ last.result = "ok" /\ DatedMirrors /= {}
    /\ odb[Dated].author.offset_minutes = I32_MAX
    /\ \A k \in DatedMirrors :
          SourceDates(odb[mirrored[k].oid].message) = {"2023-11-14T22:13:20+00:00"}

====
